---------------------------- MODULE Spec2Model ----------------------------
(***************************************************************************)
(* A model of simpleplot/canvas.cpp: the Canvas object (constructor,       *)
(* ordered plot membership, axis state, frame-rate mode and the Series     *)
(* data buffers it isolates and deletes), the registry maps with their     *)
(* CanvasGuard locking, and the render thread of Canvas::launch together   *)
(* with deleteCanvas.                                                      *)
(*                                                                         *)
(* The plot registry (getPlotType, getPlotAxisType, getPlotCanvas,         *)
(* associatePlot, disassociatePlot) lives in plots/plot.cpp, which is not  *)
(* part of canvas.cpp; it is modelled from the specification's data model. *)
(***************************************************************************)
EXTENDS Integers, Sequences, FiniteSets, TLC

(***************************************************************************)
(* Bounds of the model.                                                    *)
(***************************************************************************)
\* number of plot ids handed out by the plot factories
NumPlots == 4
\* canvases that makeCanvas may create (values of Canvas::maxID handed out)
MaxCanvases == 2
\* longest plot list given to makeCanvas and longest membership list
MaxLen == 3
\* the PLOT_TYPE enumeration is 0..MaxPlotType
MaxPlotType == 2
\* caller threads of the host application
NumCallers == 2
\* registry calls (addPlotToCanvas, removePlotFromCanvas, deleteCanvas) that
\* one caller thread makes
MaxCalls == 1

Plots == 1..NumPlots
CanvasIds == 0..(MaxCanvases - 1)
PlotTypes == 0..MaxPlotType
Callers == 1..NumCallers

\* the one caller of the single-threaded specifications
Main == 1
\* the render thread std::thread(&Canvas::launch, canvas) of canvas c
RenderThread(c) == -(c + 1)
\* no thread: the owner of an unlocked mutex
NoThread == 0
\* a CANVAS_ID that names no canvas
NoCanvas == -1
\* what reading one element past the end of the vector may give besides a
\* plot type: an int that is no PLOT_TYPE
NoOrder == -1

VARIABLES
    plotType,            \* plot registry: PLOT_ID -> PLOT_TYPE
    canvasOf,            \* plot registry: PLOT_ID -> owning-canvas back-reference
    unset,               \* plot registry: back-reference of a plot with no canvas
    series,              \* Series<X,Y>::data of each plot and the heap around it
    canvas,              \* the Canvas objects, by id
    maxID,               \* Canvas::maxID
    canvasHWNDMap,       \* Maps::canvasHWNDMap (its domain; the handle of c is c)
    canvasPointerMap,    \* Maps::canvasPointerMap (its domain; the pointer is c)
    canvasMapMutex,      \* Maps::canvasMapMutex: [owner, count]
    canvasMutexMap,      \* Maps::canvasMutexMap: id -> [owner, count]
    hwndToBitmap,        \* the windows that have a back buffer
    terminateCanvas,     \* termination flags, by window handle
    hwndToBitmapMutex,   \* owner of hwndToBitmapMutex
    terminateCanvasMutex,\* owner of terminateCanvasMutex
    rpc,                 \* position of each canvas's render thread in launch
    pc,                  \* position of each caller thread
    call,                \* the call a caller thread is inside
    ret,                 \* each caller's last completed call and its outcome
    flagged,             \* canvases whose flag deleteCanvas has set
    paintsAfterFlag,     \* paint passes begun since deleteCanvas set the flag
    nCalls               \* registry calls each caller thread has begun

vars == <<plotType, canvasOf, unset, series, canvas, maxID, canvasHWNDMap,
          canvasPointerMap, canvasMapMutex, canvasMutexMap, hwndToBitmap,
          terminateCanvas, hwndToBitmapMutex, terminateCanvasMutex, rpc, pc,
          call, ret, flagged, paintsAfterFlag, nCalls>>

plotVars == <<plotType, canvasOf, unset>>
mapVars == <<canvasHWNDMap, canvasPointerMap, canvasMapMutex, canvasMutexMap>>
wndVars == <<hwndToBitmap, terminateCanvas, hwndToBitmapMutex,
             terminateCanvasMutex>>
auxVars == <<flagged, paintsAfterFlag, nCalls>>

(***************************************************************************)
(* Sequences.                                                              *)
(***************************************************************************)
\* std::vector::insert(begin + (k - 1), x)
InsertAt(s, k, x) == SubSeq(s, 1, k - 1) \o <<x>> \o SubSeq(s, k, Len(s))

\* std::find followed by std::vector::erase of the element found
EraseFirst(s, x) ==
    IF \E i \in 1..Len(s) : s[i] = x
    THEN LET k == CHOOSE i \in 1..Len(s) :
                      s[i] = x /\ \A j \in 1..(i - 1) : s[j] # x
         IN  SubSeq(s, 1, k - 1) \o SubSeq(s, k + 1, Len(s))
    ELSE s

Range(s) == {s[i] : i \in 1..Len(s)}

Count(s, x) == Cardinality({i \in 1..Len(s) : s[i] = x})

\* the plot lists a caller passes to makeCanvas: distinct plot ids
PlotLists ==
    UNION {{s \in [1..n -> Plots] : \A i, j \in 1..n : s[i] = s[j] => i = j}
           : n \in 0..MaxLen}

(***************************************************************************)
(* The plot registry.                                                      *)
(***************************************************************************)
\* the plot type whose plots draw on the "special" axis; every other plot
\* type, PLOT_TYPE::SERIES among them, draws on the 2D Cartesian axis
SpecialPlotType == 1
\* PLOT_TYPE::SERIES
SeriesType == 0

getPlotType(p) == plotType[p]

getPlotAxisType(p) ==
    IF plotType[p] = SpecialPlotType THEN "SPECIAL" ELSE "CART_2D"

getPlotCanvas(p) == canvasOf[p]

(***************************************************************************)
(* The Canvas object.                                                      *)
(***************************************************************************)
\* a Canvas before its constructor body runs; state is "none" for an id no
\* canvas has, "live" for a constructed canvas, "freed" after delete this.
\* limits and drawSpace say what the buffers axisLimits and drawSpace hold:
\* "unallocated" before setAxisType, "uninit" from new float[4] and
\* new POINT[4] until a pass writes them; limits is then "written" and
\* axisLimits the four values, drawSpace is "current" once the last pass
\* has assigned it and "earlier" when a later pass finds it so.
\* Of the last pass: order is what it drew, in the order it drew it,
\* gridSpace, plotSpace and axisSpace whether drawSpace held the corners of
\* this pass ("current") or not ("stale") when the grids, the plots and the
\* axes were drawn, and drawn the plots it drew.
NewCanvas ==
    [state |-> "live", plots |-> <<>>, axisType |-> "UNSET", axisAllocs |-> 0,
     framerate |-> "LIVE", killed |-> FALSE, limits |-> "unallocated",
     axisLimits |-> <<0, 0, 0, 0>>, drawSpace |-> "unallocated",
     order |-> <<>>, gridSpace |-> "none", plotSpace |-> "none",
     axisSpace |-> "none", drawn |-> <<>>]

NoCanvasObject == [NewCanvas EXCEPT !.state = "none"]

\* the axis buffers are allocated anew on every call; the count stops at 2
setAxisTypeAll(cv) ==
    [ok |-> TRUE,
     cv |-> [cv EXCEPT !.axisAllocs = IF @ < 2 THEN @ + 1 ELSE @,
                       !.limits = "uninit",
                       !.axisLimits = <<0, 0, 0, 0>>,
                       !.drawSpace = "uninit"]]

setAxisType(cv) ==
    IF cv.axisType = "CART_2D"
    THEN [ok |-> TRUE,
          cv |-> [cv EXCEPT !.axisAllocs = IF @ < 2 THEN @ + 1 ELSE @,
                            !.limits = "uninit",
                       !.axisLimits = <<0, 0, 0, 0>>,
                       !.drawSpace = "uninit"]]
    ELSE [ok |-> FALSE, cv |-> cv]

\* One pass of the while loop of addPlot on the positions begin (b) and end
\* (e), 1-based, with end = Len + 1 for plots.end(); the loop hangs when a pass
\* leaves begin, end and both orders as they were.
RECURSIVE BinarySearch(_, _, _, _, _, _)
BinarySearch(plots, thisOrder, b, e, beginOrder, endOrder) ==
    IF beginOrder = endOrder
    THEN [hang |-> FALSE, begin |-> b, beginOrder |-> beginOrder]
    ELSE LET m == b + ((e - b) \div 2)
             middleOrder == getPlotType(plots[m])
         IN  IF middleOrder > thisOrder
             THEN IF m = b /\ middleOrder = beginOrder
                  THEN [hang |-> TRUE, begin |-> b, beginOrder |-> beginOrder]
                  ELSE BinarySearch(plots, thisOrder, m, e, middleOrder,
                                    endOrder)
             ELSE BinarySearch(plots, thisOrder, b, m, beginOrder, middleOrder)

\* the search with the check after it removed
addPlotNoCheck(cv, p, g) ==
    IF Len(cv.plots) = 0
    THEN LET r == setAxisType([cv EXCEPT !.plots = <<p>>,
                                         !.axisType = getPlotAxisType(p)])
         IN  [outcome |-> IF r.ok THEN "ok" ELSE "unimplemented", cv |-> r.cv,
              pastEnd |-> FALSE]
    ELSE LET s == BinarySearch(cv.plots, getPlotType(p), 1, Len(cv.plots) + 1,
                               getPlotType(cv.plots[1]), g)
         IN  IF s.hang
             THEN [outcome |-> "hang", cv |-> cv, pastEnd |-> TRUE]
             ELSE [outcome |-> "ok",
                   cv |-> [cv EXCEPT !.plots = InsertAt(@, s.begin, p)],
                   pastEnd |-> TRUE]

\* Canvas::addPlot(p); g is the order read through *plots.end()
addPlot(cv, p, g) ==
    IF Len(cv.plots) = 0
    THEN LET r == setAxisType([cv EXCEPT !.plots = <<p>>,
                                         !.axisType = getPlotAxisType(p)])
         IN  [outcome |-> IF r.ok THEN "ok" ELSE "unimplemented", cv |-> r.cv,
              pastEnd |-> FALSE]
    ELSE LET s == BinarySearch(cv.plots, getPlotType(p), 1, Len(cv.plots) + 1,
                               getPlotType(cv.plots[1]), g)
         IN  IF s.hang
             THEN [outcome |-> "hang", cv |-> cv, pastEnd |-> TRUE]
             ELSE IF s.beginOrder # getPlotType(p)
                  THEN [outcome |-> "binaryInsert", cv |-> cv, pastEnd |-> TRUE]
                  ELSE [outcome |-> "ok",
                        cv |-> [cv EXCEPT !.plots = InsertAt(@, s.begin, p)],
                        pastEnd |-> TRUE]

\* the values getPlotType(*plots.end()) may have
EndOrders == PlotTypes \cup {NoOrder}

\* Canvas::removePlot(p)
removePlot(cv, p) == [cv EXCEPT !.plots = EraseFirst(@, p)]

\* the for loop of the constructor from plots_[i] on
RECURSIVE CtorLoop(_, _, _)
CtorLoop(list, i, cv) ==
    IF i > Len(list)
    THEN LET r == setAxisType(cv)
         IN  {[outcome |-> IF r.ok THEN "ok" ELSE "unimplemented", cv |-> r.cv]}
    ELSE IF cv.axisType # getPlotAxisType(list[i])
         THEN {[outcome |-> "sameAxis", cv |-> cv]}
         ELSE UNION {LET r == addPlot(cv, list[i], g)
                     IN  IF r.outcome = "ok"
                         THEN CtorLoop(list, i + 1, r.cv)
                         ELSE {r}
                     : g \in EndOrders}

\* Canvas::Canvas(plots_, style): the outcomes of the constructor
CanvasCtor(list) ==
    IF Len(list) = 0
    THEN {[outcome |-> "ok", cv |-> NewCanvas]}
    ELSE LET cv0 == [NewCanvas EXCEPT !.axisType = getPlotAxisType(list[1])]
         IN  IF Len(list) > 1 /\ cv0.axisType = "SPECIAL"
             THEN {[outcome |-> "special", cv |-> cv0]}
             ELSE CtorLoop(list, 1, cv0)

(***************************************************************************)
(* Calls and their outcomes.                                               *)
(***************************************************************************)
\* The registry call a caller is inside, or the last one it made.  inner: the
\* caller is inside the removePlotFromCanvas that addPlotToCanvas
\* calls, and old is the canvas id that call was given; outcome is "none"
\* until the call has returned or thrown
NoCall ==
    [op |-> "none", canvas |-> NoCanvas, plot |-> 0, inner |-> FALSE,
     old |-> NoCanvas, outcome |-> "none"]

\* wasEmpty and axisBefore describe the canvas when the call began, changed
\* says whether the call changed its membership list, entered whether a
\* setFramerate took the canvas into static mode, roundTrip whether this
\* setFramerate took it out of the static mode the call before it had entered,
\* matched whether a member of the list had the plot type of the call's plot
\* when the call began, pastEnd whether the call read the element at plots.end()
NoRet ==
    [op |-> "none", canvas |-> NoCanvas, plot |-> 0, list |-> <<>>,
     outcome |-> "none", wasEmpty |-> TRUE, axisBefore |-> "UNSET",
     changed |-> FALSE, entered |-> FALSE, roundTrip |-> FALSE,
     matched |-> FALSE, pastEnd |-> FALSE]

Errors == {"special", "sameAxis", "unimplemented", "binaryInsert",
           "out_of_range", "system_error"}

Ret(op, c, p, list, outcome, cvBefore, cvAfter) ==
    [op |-> op, canvas |-> c, plot |-> p, list |-> list, outcome |-> outcome,
     wasEmpty |-> Len(cvBefore.plots) = 0, axisBefore |-> cvBefore.axisType,
     changed |-> cvAfter.plots # cvBefore.plots, entered |-> FALSE,
     roundTrip |-> FALSE,
     matched |-> /\ p \in Plots
                 /\ \E i \in 1..Len(cvBefore.plots) :
                        getPlotType(cvBefore.plots[i]) = getPlotType(p),
     pastEnd |-> FALSE]

\* a caller that is inside no call
Idle(t) == pc[t] = "idle"

(***************************************************************************)
(* The initial state: no canvas yet, every plot made by its factory.       *)
(***************************************************************************)
\* skip and values are the step and the data of makeSeries(skip, data, n)
FreshSeries ==
    [ref |-> "caller", live |-> TRUE, callerLive |-> TRUE, leaked |-> FALSE,
     doubleFree |-> FALSE, staleRead |-> FALSE, skip |-> 1, values |-> <<0>>]

\* everything but the plots
InitRest ==
    /\ canvas = [c \in CanvasIds |-> NoCanvasObject]
    /\ maxID = 0
    /\ canvasHWNDMap = {}
    /\ canvasPointerMap = {}
    /\ canvasMapMutex = [owner |-> NoThread, count |-> 0]
    /\ canvasMutexMap = [c \in CanvasIds \cup {NoCanvas} |->
                            [owner |-> NoThread, count |-> 0]]
    /\ hwndToBitmap = {}
    /\ terminateCanvas = [c \in CanvasIds |-> "absent"]
    /\ hwndToBitmapMutex = NoThread
    /\ terminateCanvasMutex = NoThread
    /\ rpc = [c \in CanvasIds |-> "none"]
    /\ pc = [t \in Callers |-> "idle"]
    /\ call = [t \in Callers |-> NoCall]
    /\ ret = [t \in Callers |-> NoRet]
    /\ flagged = {}
    /\ paintsAfterFlag = [c \in CanvasIds |-> 0]
    /\ nCalls = [t \in Callers |-> 0]

InitCommon ==
    /\ series = [p \in Plots |-> FreshSeries]
    /\ InitRest

\* the plot types go round the plots, so that every type has a plot and
\* PLOT_TYPE::SERIES has two once there are more plots than types
PlotTypeOf(p) == (p - 1) % (MaxPlotType + 1)

\* plots of every type, none of them in a canvas
InitCanvas ==
    /\ plotType = [p \in Plots |-> PlotTypeOf(p)]
    /\ unset = NoCanvas
    /\ canvasOf = [p \in Plots |-> unset]
    /\ InitCommon

(***************************************************************************)
(* Single-threaded use of a Canvas: the constructor and the membership     *)
(* methods, called by one thread; a call that never returns leaves the     *)
(* caller inside it.                                                       *)
(***************************************************************************)
\* makeCanvas(list, style); the constructor takes its id before it can throw
MakeCanvasBy(t, list) ==
    /\ Idle(t)
    /\ maxID < MaxCanvases
    /\ maxID' = maxID + 1
    /\ \E o \in CanvasCtor(list) :
          /\ ret' = [ret EXCEPT ![t] =
                        Ret("makeCanvas",
                            IF o.outcome = "ok" THEN maxID ELSE NoCanvas,
                            0, list, o.outcome, NewCanvas, o.cv)]
          /\ pc' = [pc EXCEPT ![t] =
                       IF o.outcome = "hang" THEN "hang" ELSE "idle"]
          /\ IF o.outcome = "ok"
             THEN /\ canvas' = [canvas EXCEPT ![maxID] = o.cv]
                  /\ rpc' = [rpc EXCEPT ![maxID] = "initWindow"]
             ELSE UNCHANGED <<canvas, rpc>>
    /\ UNCHANGED <<plotVars, series, mapVars, wndVars, call, auxVars>>

MakeCanvas == \E list \in PlotLists : MakeCanvasBy(Main, list)

\* canvas.addPlot(p) on a live canvas, for a plot of the set P
AddPlotOf(P) ==
    \E c \in CanvasIds, p \in P, g \in EndOrders :
        /\ Idle(Main)
        /\ canvas[c].state = "live"
        /\ Len(canvas[c].plots) < MaxLen
        /\ LET r == addPlot(canvas[c], p, g)
           IN  /\ canvas' = [canvas EXCEPT ![c] = r.cv]
               /\ ret' = [ret EXCEPT ![Main] =
                             [Ret("addPlot", c, p, <<>>, r.outcome, canvas[c],
                                  r.cv) EXCEPT !.pastEnd = r.pastEnd]]
               /\ pc' = [pc EXCEPT ![Main] =
                            IF r.outcome = "hang" THEN "hang" ELSE "idle"]
        /\ UNCHANGED <<plotVars, series, maxID, mapVars, wndVars, rpc, call,
                       auxVars>>

AddPlot == AddPlotOf(Plots)

\* canvas.removePlot(p) on a live canvas, for a plot of the set P
RemovePlotOf(P) ==
    \E c \in CanvasIds, p \in P :
        /\ Idle(Main)
        /\ canvas[c].state = "live"
        /\ canvas' = [canvas EXCEPT ![c] = removePlot(@, p)]
        /\ ret' = [ret EXCEPT ![Main] =
                      Ret("removePlot", c, p, <<>>, "ok", canvas[c],
                          removePlot(canvas[c], p))]
        /\ UNCHANGED <<plotVars, series, maxID, mapVars, wndVars, rpc, pc,
                       call, auxVars>>

RemovePlot == RemovePlotOf(Plots)

NextCanvas == MakeCanvas \/ AddPlot \/ RemovePlot

SpecCanvas == InitCanvas /\ [][NextCanvas]_vars


(***************************************************************************)
(* Membership order and the constructor's checks (claims C4 to C7).        *)
(***************************************************************************)
\* from greatest to least plot type
SortedByPlotType(s) ==
    \A i, j \in 1..Len(s) : i < j => getPlotType(s[i]) >= getPlotType(s[j])

\* C4: in every canvas, after any sequence of addPlot and removePlot calls
\* that complete, the member plots are in order of plot type, from greatest
\* to least.
C4_MembersSortedByPlotType ==
    \A c \in CanvasIds :
        canvas[c].state = "live" => SortedByPlotType(canvas[c].plots)

\* an addPlot into a canvas that had members completed, and the canvas now
\* has three
C4_Witness ==
    /\ ret[Main].op = "addPlot"
    /\ ret[Main].outcome = "ok"
    /\ ~ret[Main].wasEmpty
    /\ Len(canvas[ret[Main].canvas].plots) = 3

\* the list holds two plots of different axis types
MixedAxisTypes(list) ==
    \E i, j \in 1..Len(list) :
        getPlotAxisType(list[i]) # getPlotAxisType(list[j])

\* C5: makeCanvas on a list with two plots of different axis types always
\* fails with one of the two incompatibility errors, and launches no canvas.
C5_MixedAxisTypesRejected ==
    (ret[Main].op = "makeCanvas" /\ MixedAxisTypes(ret[Main].list))
        => /\ ret[Main].outcome \in {"special", "sameAxis"}
           /\ ret[Main].canvas = NoCanvas
           /\ rpc[maxID - 1] = "none"

\* the list is one plot of axis type SPECIAL
OneSpecialPlot(list) ==
    Len(list) = 1 /\ getPlotAxisType(list[1]) = "SPECIAL"

\* C6 as amended: makeCanvas on a list of exactly one SPECIAL plot passes the
\* two compatibility checks and then fails with the error of setAxisType,
\* "Axis types other than cart 2d are unimplemented"; no canvas is launched.
C6_OneSpecialPlotUnimplemented ==
    (ret[Main].op = "makeCanvas" /\ OneSpecialPlot(ret[Main].list))
        => /\ ret[Main].outcome = "unimplemented"
           /\ ret[Main].canvas = NoCanvas
           /\ canvas[maxID - 1].state = "none"
           /\ rpc[maxID - 1] = "none"

C6_Witness ==
    /\ ret[Main].op = "makeCanvas"
    /\ OneSpecialPlot(ret[Main].list)
    /\ ret[Main].outcome = "unimplemented"

\* C6 as claimed: makeCanvas on a list of exactly one SPECIAL plot raises no
\* error and the canvas holds that one plot.
C6_OneSpecialPlotSucceeds ==
    (ret[Main].op = "makeCanvas" /\ OneSpecialPlot(ret[Main].list))
        => /\ ret[Main].outcome = "ok"
           /\ ret[Main].canvas \in CanvasIds
           /\ canvas[ret[Main].canvas].plots = ret[Main].list

\* C7: addPlot of a plot whose axis type is not the canvas's, on a canvas that
\* has members, always fails with an error and leaves the members as they
\* were.
C7_OtherAxisTypeRejected ==
    (/\ ret[Main].op = "addPlot"
     /\ ~ret[Main].wasEmpty
     /\ ret[Main].axisBefore # getPlotAxisType(ret[Main].plot))
        => /\ ret[Main].outcome \in Errors
           /\ ~ret[Main].changed


(***************************************************************************)
(* Frame-rate mode and the Series data buffers.  A Series holds the        *)
(* pointer data: ref says whether it points at the caller's buffer or at a *)
(* copy made by isolateData, live whether the buffer it points at is still *)
(* allocated, callerLive whether the caller's buffer is; leaked is set     *)
(* when a copy is left allocated with no pointer to it, doubleFree when    *)
(* delete[] is given a buffer already released, staleRead when a released  *)
(* buffer is read.                                                         *)
(***************************************************************************)
\* the Series plots of the frame-rate specification
NumSeries == 2
\* the canvases of the frame-rate specification
NumDataCanvases == 1

SeriesPlots == 1..NumSeries

SeriesLists == {s \in PlotLists : Range(s) \subseteq SeriesPlots}

\* data = newData without the copy ever being released by anyone else
isolateData(s) ==
    [s EXCEPT !.ref = "copy", !.live = TRUE,
              !.leaked = @ \/ (s.ref = "copy" /\ s.live),
              !.staleRead = @ \/ ~s.live]

\* Series::deleteData: delete[] data, and data is left as it was
deleteData(s) ==
    IF s.live
    THEN [s EXCEPT !.live = FALSE,
                   !.callerLive = IF s.ref = "caller" THEN FALSE ELSE @]
    ELSE [s EXCEPT !.doubleFree = TRUE]

\* for (PLOT_ID id : plots) isolatePlotData(id), from position i on
RECURSIVE IsolateAll(_, _, _)
IsolateAll(plots, i, ser) ==
    IF i > Len(plots)
    THEN ser
    ELSE IsolateAll(plots, i + 1,
                    [ser EXCEPT ![plots[i]] = isolateData(@)])

\* for (PLOT_ID id : plots) deletePlotData(id), from position i on
RECURSIVE DeleteAll(_, _, _)
DeleteAll(plots, i, ser) ==
    IF i > Len(plots)
    THEN ser
    ELSE DeleteAll(plots, i + 1, [ser EXCEPT ![plots[i]] = deleteData(@)])

\* Canvas::setFramerate(rate): what it does to the plots' data
setFramerate(cv, rate, ser) ==
    IF rate = "SP_STATIC" /\ cv.framerate # "SP_STATIC"
    THEN IsolateAll(cv.plots, 1, ser)
    ELSE IF rate # "SP_STATIC" /\ cv.framerate = "SP_STATIC"
         THEN DeleteAll(cv.plots, 1, ser)
         ELSE ser

\* Canvas::kill, once it holds its two mutexes: what it does to the plots'
\* data
kill(cv, ser) ==
    IF cv.framerate = "SP_STATIC" THEN DeleteAll(cv.plots, 1, ser) ELSE ser

Framerates == {"SP_STATIC", "LIVE"}

\* canvas.setFramerate(rate) on a live canvas
SetFramerate ==
    \E c \in CanvasIds, rate \in Framerates :
        /\ Idle(Main)
        /\ canvas[c].state = "live"
        /\ series' = setFramerate(canvas[c], rate, series)
        /\ canvas' = [canvas EXCEPT ![c].framerate = rate]
        /\ ret' = [ret EXCEPT ![Main] =
                      [Ret("setFramerate", c, 0, <<>>, "ok", canvas[c],
                           canvas[c])
                       EXCEPT !.entered = rate = "SP_STATIC"
                                          /\ canvas[c].framerate # "SP_STATIC",
                              !.roundTrip =
                                  /\ rate # "SP_STATIC"
                                  /\ ret[Main].op = "setFramerate"
                                  /\ ret[Main].canvas = c
                                  /\ ret[Main].entered]]
        /\ UNCHANGED <<plotVars, maxID, mapVars, wndVars, rpc, pc, call,
                       auxVars>>

\* the render thread of a canvas leaves its loop: kill(), then delete this
KillAndFree ==
    \E c \in CanvasIds :
        /\ Idle(Main)
        /\ canvas[c].state = "live"
        /\ ~canvas[c].killed
        /\ series' = kill(canvas[c], series)
        /\ canvas' = [canvas EXCEPT ![c].killed = TRUE, ![c].state = "freed"]
        /\ ret' = [ret EXCEPT ![Main] =
                      Ret("kill", c, 0, <<>>, "ok", canvas[c], canvas[c])]
        /\ UNCHANGED <<plotVars, maxID, mapVars, wndVars, rpc, pc, call,
                       auxVars>>

\* every plot is a Series, none of them in a canvas
InitData ==
    /\ plotType = [p \in Plots |-> SeriesType]
    /\ unset = NoCanvas
    /\ canvasOf = [p \in Plots |-> unset]
    /\ InitCommon

MakeSeriesCanvas ==
    /\ maxID < NumDataCanvases
    /\ \E list \in SeriesLists : MakeCanvasBy(Main, list)

AddSeries == AddPlotOf(SeriesPlots)

RemoveSeries == RemovePlotOf(SeriesPlots)

NextData ==
    MakeSeriesCanvas \/ AddSeries \/ RemoveSeries \/ SetFramerate \/ KillAndFree

SpecData == InitData /\ [][NextData]_vars

(***************************************************************************)
(* The data buffers across static mode (claims C8 and C9).                 *)
(***************************************************************************)
\* C8: after setFramerate(SP_STATIC) and then setFramerate(non-static) on a
\* canvas with members, every member's data points at the caller's buffer,
\* which is allocated, and the copy made on entry was released once: no
\* buffer was released twice and no copy is left allocated.
C8_RoundTripRestoresCallerData ==
    ret[Main].roundTrip =>
        \A p \in Range(canvas[ret[Main].canvas].plots) :
            /\ series[p].ref = "caller"
            /\ series[p].live
            /\ series[p].callerLive
            /\ ~series[p].doubleFree
            /\ ~series[p].leaked

\* C9: the canvas releases a plot's buffer only if the buffer is a copy the
\* canvas made on entering static mode; it never releases a caller's buffer.
C9_CallerBufferNeverReleased ==
    \A p \in Plots : series[p].callerLive


(***************************************************************************)
(* The registry: initWindow registers a canvas, and caller threads run     *)
(* addPlotToCanvas and removePlotFromCanvas under a CanvasGuard.  A caller *)
(* is at "general" before it locks canvasMapMutex, at "specific" before it *)
(* locks canvasMutexMap[id], then in the body of the function.             *)
(*                                                                         *)
(* Both mutexes are std::mutex.  Locking one the thread already owns is    *)
(* undefined; the builds differ in what they do: the lock counts as a      *)
(* recursive one, the thread blocks for good, or lock() throws             *)
(* std::system_error.                                                      *)
(***************************************************************************)
Free == [owner |-> NoThread, count |-> 0]

Unlock(m) == IF m.count > 1 THEN [m EXCEPT !.count = @ - 1] ELSE Free

\* the id the guard under construction (or in scope) was given
GuardId(t) == IF call[t].inner THEN call[t].old ELSE call[t].canvas

\* the caller is about to lock a mutex it owns
Relocking(t) ==
    \/ pc[t] = "general" /\ canvasMapMutex.owner = t
    \/ pc[t] = "specific" /\ canvasMutexMap[GuardId(t)].owner = t

\* where a caller goes once the guard is built
AfterGuard(t) ==
    IF call[t].op = "addPlotToCanvas" /\ ~call[t].inner
    THEN "call_remove"
    ELSE "body_remove"

\* stack unwinding after a throw: every guard of the caller is destroyed
ReleaseAll(t) ==
    /\ canvasMapMutex' = Free
    /\ canvasMutexMap' = [c \in DOMAIN canvasMutexMap |->
                             IF canvasMutexMap[c].owner = t
                             THEN Free
                             ELSE canvasMutexMap[c]]

\* the call returns or throws: the caller is inside no call any more
Return(t, outcome) ==
    /\ pc' = [pc EXCEPT ![t] = "idle"]
    /\ call' = [call EXCEPT ![t].outcome = outcome, ![t].inner = FALSE,
                            ![t].old = NoCanvas]
    /\ UNCHANGED ret

\* the ids makeCanvas has returned to its callers
ReturnedIds == {c \in CanvasIds : canvas[c].state # "none"}

\* callers inside an addPlotToCanvas on canvas c
Adding(c) ==
    {t \in Callers : /\ ~Idle(t)
                     /\ call[t].op = "addPlotToCanvas"
                     /\ call[t].canvas = c}

\* makeCanvas on a list of Series plots
MakeCanvasReg == \E list \in SeriesLists : MakeCanvasBy(Main, list)

\* createBitmap(), called by initWindow: the back buffer and the flag
CreateBitmap ==
    \E c \in CanvasIds :
        /\ rpc[c] = "initWindow"
        /\ hwndToBitmapMutex = NoThread
        /\ terminateCanvasMutex = NoThread
        /\ hwndToBitmap' = hwndToBitmap \cup {c}
        /\ terminateCanvas' = [terminateCanvas EXCEPT ![c] = "false"]
        /\ rpc' = [rpc EXCEPT ![c] = "register"]
        /\ UNCHANGED <<plotVars, series, canvas, maxID, mapVars,
                       hwndToBitmapMutex, terminateCanvasMutex, pc, call, ret,
                       auxVars>>

\* the tail of initWindow: under canvasMapMutex, the three map entries
Register ==
    \E c \in CanvasIds :
        /\ rpc[c] = "register"
        /\ canvasMapMutex.owner = NoThread
        /\ canvasHWNDMap' = canvasHWNDMap \cup {c}
        /\ canvasPointerMap' = canvasPointerMap \cup {c}
        /\ rpc' = [rpc EXCEPT ![c] = "check"]
        /\ UNCHANGED <<plotVars, series, canvas, maxID, canvasMapMutex,
                       canvasMutexMap, wndVars, pc, call, ret, auxVars>>

\* a caller enters addPlotToCanvas(c, p)
CallAddPlotToCanvas ==
    \E t \in Callers, c \in ReturnedIds, p \in SeriesPlots :
        /\ Idle(t)
        /\ nCalls[t] < MaxCalls
        /\ Len(canvas[c].plots) + Cardinality(Adding(c)) < MaxLen
        /\ nCalls' = [nCalls EXCEPT ![t] = @ + 1]
        /\ pc' = [pc EXCEPT ![t] = "general"]
        /\ call' = [call EXCEPT ![t] =
                       [NoCall EXCEPT !.op = "addPlotToCanvas", !.canvas = c,
                                      !.plot = p]]
        /\ UNCHANGED <<plotVars, series, canvas, maxID, mapVars, wndVars, rpc,
                       ret, flagged, paintsAfterFlag>>

\* a caller enters removePlotFromCanvas(c, p)
CallRemovePlotFromCanvas ==
    \E t \in Callers, c \in ReturnedIds, p \in SeriesPlots :
        /\ Idle(t)
        /\ nCalls[t] < MaxCalls
        /\ nCalls' = [nCalls EXCEPT ![t] = @ + 1]
        /\ pc' = [pc EXCEPT ![t] = "general"]
        /\ call' = [call EXCEPT ![t] =
                       [NoCall EXCEPT !.op = "removePlotFromCanvas",
                                      !.canvas = c, !.plot = p]]
        /\ UNCHANGED <<plotVars, series, canvas, maxID, mapVars, wndVars, rpc,
                       ret, flagged, paintsAfterFlag>>

\* CanvasGuard: generalGuard(Maps::canvasMapMutex)
LockGeneral ==
    \E t \in Callers :
        /\ pc[t] = "general"
        /\ canvasMapMutex.owner = NoThread
        /\ canvasMapMutex' = [owner |-> t, count |-> 1]
        /\ pc' = [pc EXCEPT ![t] = "specific"]
        /\ UNCHANGED <<plotVars, series, canvas, maxID, canvasHWNDMap,
                       canvasPointerMap, canvasMutexMap, wndVars, rpc, call,
                       ret, auxVars>>

\* CanvasGuard: specificGuard(Maps::canvasMutexMap[id])
LockSpecific ==
    \E t \in Callers :
        /\ pc[t] = "specific"
        /\ canvasMutexMap[GuardId(t)].owner = NoThread
        /\ canvasMutexMap' = [canvasMutexMap EXCEPT ![GuardId(t)] =
                                 [owner |-> t, count |-> 1]]
        /\ pc' = [pc EXCEPT ![t] = AfterGuard(t)]
        /\ UNCHANGED <<plotVars, series, canvas, maxID, canvasHWNDMap,
                       canvasPointerMap, canvasMapMutex, wndVars, rpc, call,
                       ret, auxVars>>

\* lock() of a mutex the thread owns, where the build counts the lock
RelockRecursive ==
    \E t \in Callers :
        /\ Relocking(t)
        /\ IF pc[t] = "general"
           THEN /\ canvasMapMutex' = [canvasMapMutex EXCEPT !.count = @ + 1]
                /\ pc' = [pc EXCEPT ![t] = "specific"]
                /\ UNCHANGED canvasMutexMap
           ELSE /\ canvasMutexMap' = [canvasMutexMap EXCEPT
                                         ![GuardId(t)].count = @ + 1]
                /\ pc' = [pc EXCEPT ![t] = AfterGuard(t)]
                /\ UNCHANGED canvasMapMutex
        /\ UNCHANGED <<plotVars, series, canvas, maxID, canvasHWNDMap,
                       canvasPointerMap, wndVars, rpc, call, ret, auxVars>>

\* lock() of a mutex the thread owns, where the build waits for the owner
RelockBlocks ==
    \E t \in Callers :
        /\ Relocking(t)
        /\ pc' = [pc EXCEPT ![t] = "blocked"]
        /\ UNCHANGED <<plotVars, series, canvas, maxID, mapVars, wndVars, rpc,
                       call, ret, auxVars>>

\* lock() of a mutex the thread owns, where the build throws system_error
RelockThrows ==
    \E t \in Callers :
        /\ Relocking(t)
        /\ ReleaseAll(t)
        /\ Return(t, "system_error")
        /\ UNCHANGED <<plotVars, series, canvas, maxID, canvasHWNDMap,
                       canvasPointerMap, wndVars, rpc, auxVars>>

\* addPlotToCanvas: removePlotFromCanvas(getPlotCanvas(plotID), plotID)
CallRemove ==
    \E t \in Callers :
        /\ pc[t] = "call_remove"
        /\ call' = [call EXCEPT ![t].inner = TRUE,
                                ![t].old = getPlotCanvas(call[t].plot)]
        /\ pc' = [pc EXCEPT ![t] = "general"]
        /\ UNCHANGED <<plotVars, series, canvas, maxID, mapVars, wndVars, rpc,
                       ret, auxVars>>

\* the body of removePlotFromCanvas and the end of its guard
BodyRemove ==
    \E t \in Callers :
        /\ pc[t] = "body_remove"
        /\ IF GuardId(t) \notin canvasPointerMap
           THEN /\ ReleaseAll(t)
                /\ Return(t, "out_of_range")
                /\ UNCHANGED <<canvas, canvasOf>>
           ELSE /\ canvas' = [canvas EXCEPT ![GuardId(t)] =
                                 removePlot(@, call[t].plot)]
                /\ canvasOf' = [canvasOf EXCEPT ![call[t].plot] = unset]
                /\ canvasMutexMap' = [canvasMutexMap EXCEPT ![GuardId(t)] =
                                         Unlock(@)]
                /\ canvasMapMutex' = Unlock(canvasMapMutex)
                /\ IF call[t].inner
                   THEN /\ pc' = [pc EXCEPT ![t] = "body_add"]
                        /\ call' = [call EXCEPT ![t].inner = FALSE]
                        /\ UNCHANGED ret
                   ELSE Return(t, "ok")
        /\ UNCHANGED <<plotType, unset, series, maxID, canvasHWNDMap,
                       canvasPointerMap, wndVars, rpc, auxVars>>

\* addPlotToCanvas after the removal: addPlot, associatePlot, end of guard
BodyAdd ==
    \E t \in Callers, g \in EndOrders :
        /\ pc[t] = "body_add"
        /\ IF call[t].canvas \notin canvasPointerMap
           THEN /\ ReleaseAll(t)
                /\ Return(t, "out_of_range")
                /\ UNCHANGED <<canvas, canvasOf>>
           ELSE LET r == addPlot(canvas[call[t].canvas], call[t].plot, g)
                IN  /\ canvas' = [canvas EXCEPT ![call[t].canvas] = r.cv]
                    /\ IF r.outcome = "hang"
                       THEN /\ pc' = [pc EXCEPT ![t] = "hang"]
                            /\ UNCHANGED <<call, ret, canvasMapMutex,
                                           canvasMutexMap, canvasOf>>
                       ELSE /\ ReleaseAll(t)
                            /\ Return(t, r.outcome)
                            /\ canvasOf' =
                                  IF r.outcome = "ok"
                                  THEN [canvasOf EXCEPT ![call[t].plot] =
                                           call[t].canvas]
                                  ELSE canvasOf
        /\ UNCHANGED <<plotType, unset, series, maxID, canvasHWNDMap,
                       canvasPointerMap, wndVars, rpc, auxVars>>

\* every plot is a Series with no canvas; the plot registry's value for "no
\* canvas" is not fixed by canvas.cpp: it may name no canvas at all, or be
\* the zero of a value-initialised id, which the first canvas has
InitReg ==
    /\ plotType = [p \in Plots |-> SeriesType]
    /\ unset \in {NoCanvas, 0}
    /\ canvasOf = [p \in Plots |-> unset]
    /\ InitCommon

NextReg ==
    \/ MakeCanvasReg
    \/ CreateBitmap
    \/ Register
    \/ CallAddPlotToCanvas
    \/ CallRemovePlotFromCanvas
    \/ LockGeneral
    \/ LockSpecific
    \/ RelockRecursive
    \/ RelockBlocks
    \/ RelockThrows
    \/ CallRemove
    \/ BodyRemove
    \/ BodyAdd

SpecReg == InitReg /\ [][NextReg]_vars


(***************************************************************************)
(* Membership across canvases and the registry locks (claims C1 to C3).    *)
(***************************************************************************)
InCanvas(p, c) == canvas[c].state = "live" /\ p \in Range(canvas[c].plots)

\* caller t has come out of a call of addPlotToCanvas
Moved(t) ==
    Idle(t) /\ call[t].op = "addPlotToCanvas" /\ call[t].outcome # "none"

\* the mutexes of the registry that thread t owns
Owned(t) ==
    {c \in DOMAIN canvasMutexMap : canvasMutexMap[c].owner = t}
        \cup (IF canvasMapMutex.owner = t THEN {"canvasMapMutex"} ELSE {})

\* C1: when two threads have each called addPlotToCanvas for the same plot,
\* one for canvas A and one for canvas B, and both calls are over, the plot
\* is a member of exactly one of A and B.
C1_MovedPlotInExactlyOne ==
    \A t, u \in Callers :
        (/\ t # u
         /\ Moved(t)
         /\ Moved(u)
         /\ call[t].plot = call[u].plot
         /\ call[t].canvas # call[u].canvas)
            => (InCanvas(call[t].plot, call[t].canvas)
                    # InCanvas(call[t].plot, call[u].canvas))

\* C2: no caller of addPlotToCanvas or removePlotFromCanvas is ever left
\* waiting for good (for a mutex that it owns itself, or in a loop that does
\* not end), and a caller that is out of its call owns no registry mutex.
C2_EveryCallReturnsUnlocked ==
    \A t \in Callers :
        /\ pc[t] \notin {"blocked", "hang"}
        /\ Idle(t) => Owned(t) = {}

\* the times plot p is listed in the membership lists of the live canvases
RECURSIVE Listed(_, _)
Listed(p, cs) ==
    IF cs = {}
    THEN 0
    ELSE LET c == CHOOSE x \in cs : TRUE
         IN  (IF canvas[c].state = "live" THEN Count(canvas[c].plots, p) ELSE 0)
                 + Listed(p, cs \ {c})

\* C3: every plot id is in the membership list of at most one canvas, and
\* at most once in it.
C3_PlotInAtMostOneCanvas ==
    \A p \in Plots : Listed(p, CanvasIds) <= 1


(***************************************************************************)
(* One pass of Canvas::draw.                                               *)
(***************************************************************************)
\* SimplePlot::Stats::minValue and maxValue of the data
MinOf(S) == CHOOSE x \in S : \A y \in S : x <= y

MaxOf(S) == CHOOSE x \in S : \A y \in S : y <= x

\* Series::getAxisLimits writes all four limits of the buffer it is given
getAxisLimits(s) ==
    <<0, (Len(s.values) - 1) * s.skip, MinOf(Range(s.values)),
      MaxOf(Range(s.values))>>

\* for (PLOT_ID id : plots) getPlotAxisLimits(id, axisLimits), from i on
RECURSIVE LimitsLoop(_, _, _, _)
LimitsLoop(plots, i, limits, ser) ==
    IF i > Len(plots)
    THEN limits
    ELSE LimitsLoop(plots, i + 1, getAxisLimits(ser[plots[i]]), ser)

\* what a drawing statement finds in drawSpace
Used(space) ==
    IF space \in {"current", "unallocated"} THEN space ELSE "stale"

\* the statements of draw, in the order of the code
DrawOrder == <<"limits", "grid", "corners", "plots", "axis">>

\* one statement of draw; a canvas without axis buffers has nothing that a
\* statement could write to
DrawStep(step, cv, ser) ==
    CASE step = "limits" ->
            IF cv.axisAllocs = 0
            THEN cv
            ELSE [cv EXCEPT !.axisLimits =
                               LimitsLoop(cv.plots, 1, cv.axisLimits, ser),
                            !.limits =
                               IF Len(cv.plots) > 0 THEN "written" ELSE @]
      [] step = "grid" ->
            [cv EXCEPT !.gridSpace = Used(cv.drawSpace),
                       !.order = Append(@, "grid")]
      [] step = "corners" ->
            IF cv.axisAllocs = 0
            THEN cv
            ELSE [cv EXCEPT !.drawSpace = "current"]
      [] step = "plots" ->
            [cv EXCEPT !.plotSpace = Used(cv.drawSpace), !.drawn = cv.plots,
                       !.order = Append(@, "plots")]
      [] step = "axis" ->
            [cv EXCEPT !.axisSpace = Used(cv.drawSpace),
                       !.order = Append(@, "axis")]

RECURSIVE DrawSteps(_, _, _, _)
DrawSteps(steps, i, cv, ser) ==
    IF i > Len(steps)
    THEN cv
    ELSE DrawSteps(steps, i + 1, DrawStep(steps[i], cv, ser), ser)

\* Canvas::draw; what the pass before left in drawSpace is now from earlier
draw(cv, ser) ==
    DrawSteps(DrawOrder, 1,
              [cv EXCEPT !.order = <<>>,
                         !.drawSpace = IF @ = "current" THEN "earlier" ELSE @],
              ser)

(***************************************************************************)
(* The render thread of a canvas (Canvas::launch) and deleteCanvas.  The   *)
(* thread is at "initWindow", "register", then goes round "check",         *)
(* "paint", "draw", "sleep" until the check sends it to "kill",            *)
(* "kill_locked", "delete" and "done".                                     *)
(***************************************************************************)
\* a launch loop that only looks for a missing flag
killNowIfAbsent(c) == terminateCanvas[c] = "absent"

\* terminateCanvas.find(hwnd) == terminateCanvas.end() || terminateCanvas.at(hwnd)
killNow(c) == terminateCanvas[c] = "absent" \/ terminateCanvas[c] = "true"

\* the owner of one of the two canvas-scoped mutexes
Owner(m) ==
    IF m = "hwndToBitmapMutex" THEN hwndToBitmapMutex ELSE terminateCanvasMutex

\* std::lock_guard<std::mutex> on mutex m, taken by thread th
Acquire(m, th) ==
    /\ Owner(m) = NoThread
    /\ hwndToBitmapMutex' =
          IF m = "hwndToBitmapMutex" THEN th ELSE hwndToBitmapMutex
    /\ terminateCanvasMutex' =
          IF m = "terminateCanvasMutex" THEN th ELSE terminateCanvasMutex

\* a kill() that takes its two guards the other way round
killLocksReversed == <<"terminateCanvasMutex", "hwndToBitmapMutex">>

\* kill(): guard, then guard2
killLocks == <<"hwndToBitmapMutex", "terminateCanvasMutex">>

\* createBitmap(): guard, then guard2
createBitmapLocks == <<"hwndToBitmapMutex", "terminateCanvasMutex">>

\* the head of the loop: the flag is read under terminateCanvasMutex
Check(c) ==
    /\ rpc[c] = "check"
    /\ terminateCanvasMutex = NoThread
    /\ rpc' = [rpc EXCEPT ![c] = IF killNow(c) THEN "kill" ELSE "paint"]
    /\ UNCHANGED <<plotVars, series, canvas, maxID, mapVars, wndVars, pc,
                   call, ret, auxVars>>

\* paint(): lock_guard guard(hwndToBitmapMutex); a paint pass begins
PaintLock(c) ==
    /\ rpc[c] = "paint"
    /\ hwndToBitmapMutex = NoThread
    /\ hwndToBitmapMutex' = RenderThread(c)
    /\ rpc' = [rpc EXCEPT ![c] = "draw"]
    /\ paintsAfterFlag' =
          [paintsAfterFlag EXCEPT ![c] =
              IF c \in flagged /\ @ < 2 THEN @ + 1 ELSE @]
    /\ UNCHANGED <<plotVars, series, canvas, maxID, mapVars, hwndToBitmap,
                   terminateCanvas, terminateCanvasMutex, pc, call, ret,
                   flagged, nCalls>>

\* paint(): draw(hdcBmp) into the back buffer, and the end of the guard
PaintDraw(c) ==
    /\ rpc[c] = "draw"
    /\ canvas' = [canvas EXCEPT ![c] = draw(@, series)]
    /\ hwndToBitmapMutex' = NoThread
    /\ rpc' = [rpc EXCEPT ![c] = "sleep"]
    /\ UNCHANGED <<plotVars, series, maxID, mapVars, hwndToBitmap,
                   terminateCanvas, terminateCanvasMutex, pc, call, ret,
                   auxVars>>

\* PeekMessage and sleep_for(1000 / framerate), then round the loop
Sleep(c) ==
    /\ rpc[c] = "sleep"
    /\ rpc' = [rpc EXCEPT ![c] = "check"]
    /\ UNCHANGED <<plotVars, series, canvas, maxID, mapVars, wndVars, pc,
                   call, ret, auxVars>>

\* kill(): if (killed) return; lock_guard guard(hwndToBitmapMutex)
KillLock(c) ==
    /\ rpc[c] = "kill"
    /\ IF canvas[c].killed
       THEN /\ rpc' = [rpc EXCEPT ![c] = "delete"]
            /\ UNCHANGED <<hwndToBitmapMutex, terminateCanvasMutex>>
       ELSE /\ Acquire(killLocks[1], RenderThread(c))
            /\ rpc' = [rpc EXCEPT ![c] = "kill_locked"]
    /\ UNCHANGED <<plotVars, series, canvas, maxID, mapVars, hwndToBitmap,
                   terminateCanvas, pc, call, ret, auxVars>>

\* kill(): lock_guard guard2(terminateCanvasMutex) and the rest of it; both
\* guards end with the function
KillBody(c) ==
    /\ rpc[c] = "kill_locked"
    /\ Owner(killLocks[2]) = NoThread
    /\ hwndToBitmap' = hwndToBitmap \ {c}
    /\ terminateCanvas' = [terminateCanvas EXCEPT ![c] = "true"]
    /\ series' = kill(canvas[c], series)
    /\ canvas' = [canvas EXCEPT ![c].killed = TRUE]
    /\ hwndToBitmapMutex' = NoThread
    /\ terminateCanvasMutex' = NoThread
    /\ rpc' = [rpc EXCEPT ![c] = "delete"]
    /\ UNCHANGED <<plotVars, maxID, mapVars, pc, call, ret, auxVars>>

\* after the loop: delete this
DeleteThis(c) ==
    /\ rpc[c] = "delete"
    /\ canvas' = [canvas EXCEPT ![c].state = "freed"]
    /\ rpc' = [rpc EXCEPT ![c] = "done"]
    /\ UNCHANGED <<plotVars, series, maxID, mapVars, wndVars, pc, call, ret,
                   auxVars>>

\* a caller enters deleteCanvas(c)
CallDeleteCanvas(t) ==
    \E c \in ReturnedIds :
        /\ Idle(t)
        /\ nCalls[t] < MaxCalls
        /\ nCalls' = [nCalls EXCEPT ![t] = @ + 1]
        /\ pc' = [pc EXCEPT ![t] = "delete_lock"]
        /\ call' = [call EXCEPT ![t] =
                       [NoCall EXCEPT !.op = "deleteCanvas", !.canvas = c]]
        /\ UNCHANGED <<plotVars, series, canvas, maxID, mapVars, wndVars, rpc,
                       ret, flagged, paintsAfterFlag>>

\* deleteCanvas: lock_guard g(terminateCanvasMutex)
DeleteCanvasLock(t) ==
    /\ pc[t] = "delete_lock"
    /\ terminateCanvasMutex = NoThread
    /\ terminateCanvasMutex' = t
    /\ pc' = [pc EXCEPT ![t] = "delete_body"]
    /\ UNCHANGED <<plotVars, series, canvas, maxID, mapVars, hwndToBitmap,
                   terminateCanvas, hwndToBitmapMutex, rpc, call, ret,
                   auxVars>>

\* deleteCanvas: terminateCanvas.at(Maps::canvasHWNDMap.at(id)) = true
DeleteCanvasBody(t) ==
    /\ pc[t] = "delete_body"
    /\ terminateCanvasMutex' = NoThread
    /\ IF call[t].canvas \in canvasHWNDMap
          /\ terminateCanvas[call[t].canvas] # "absent"
       THEN /\ terminateCanvas' =
                  [terminateCanvas EXCEPT ![call[t].canvas] = "true"]
            /\ flagged' =
                  IF terminateCanvas[call[t].canvas] = "false"
                  THEN flagged \cup {call[t].canvas}
                  ELSE flagged
            /\ Return(t, "ok")
       ELSE /\ Return(t, "out_of_range")
            /\ UNCHANGED <<terminateCanvas, flagged>>
    /\ UNCHANGED <<plotVars, series, canvas, maxID, mapVars, hwndToBitmap,
                   hwndToBitmapMutex, rpc, paintsAfterFlag, nCalls>>

\* the steps of the render thread of canvas c in its loop and after it
RenderStep(c) ==
    \/ Check(c)
    \/ PaintLock(c)
    \/ PaintDraw(c)
    \/ Sleep(c)
    \/ KillLock(c)
    \/ KillBody(c)
    \/ DeleteThis(c)

\* the steps of a caller inside deleteCanvas
DeleteCanvasStep(t) == DeleteCanvasLock(t) \/ DeleteCanvasBody(t)

\* makeCanvas on one Series plot
MakeCanvasLoop ==
    \E list \in SeriesLists : Len(list) = 1 /\ MakeCanvasBy(Main, list)

NextLoop ==
    \/ MakeCanvasLoop
    \/ CreateBitmap
    \/ Register
    \/ \E c \in CanvasIds : RenderStep(c)
    \/ \E t \in Callers : CallDeleteCanvas(t)
    \/ \E t \in Callers : DeleteCanvasStep(t)

SpecLoop == InitData /\ [][NextLoop]_vars

\* Fair scheduling: a render thread that can step again and again does
\* step, and a caller inside deleteCanvas gets on when it can.
FairSpecLoop ==
    /\ SpecLoop
    /\ \A c \in CanvasIds : SF_vars(RenderStep(c))
    /\ \A t \in Callers : SF_vars(DeleteCanvasStep(t))
    /\ SF_vars(CreateBitmap)
    /\ WF_vars(Register)

\* C10: once deleteCanvas has set the termination flag of a running canvas,
\* its render thread begins at most one more paint pass, and under fair
\* scheduling it runs kill(), leaves the loop and frees the canvas.
C10_FlaggedCanvasIsKilledAndFreed ==
    /\ [](\A c \in CanvasIds : paintsAfterFlag[c] <= 1)
    /\ \A c \in CanvasIds :
          (c \in flagged) ~>
              (rpc[c] = "done" /\ canvas[c].killed /\ canvas[c].state = "freed")

\* a flagged canvas that began one more paint pass and was then freed
C10_Witness ==
    \E c \in flagged :
        /\ paintsAfterFlag[c] = 1
        /\ rpc[c] = "done"
        /\ canvas[c].killed
        /\ canvas[c].state = "freed"

(***************************************************************************)
(* The registry entry of a canvas that has freed itself (claim C11).       *)
(***************************************************************************)
\* C11: from the moment a canvas frees itself at the end of launch,
\* canvasPointerMap holds no entry for it.
C11_FreedCanvasNotInRegistry ==
    \A c \in CanvasIds :
        canvas[c].state = "freed" => c \notin canvasPointerMap

(***************************************************************************)
(* Paint passes while callers change the membership (claim C12).  The      *)
(* render thread paints one canvas; callers run addPlotToCanvas and        *)
(* removePlotFromCanvas on it.  The thread is in a pass from PaintLock to  *)
(* PaintDraw; a caller is in a mutation from the end of its guard's        *)
(* construction to the return of removePlot or addPlot.                    *)
(***************************************************************************)
\* the canvases of the paint specification
NumPaintCanvases == 1

MakeCanvasPaint ==
    /\ maxID < NumPaintCanvases
    /\ \E list \in SeriesLists : MakeCanvasBy(Main, list)

CheckFlag == \E c \in CanvasIds : Check(c)

BeginPaint == \E c \in CanvasIds : PaintLock(c)

EndPaint == \E c \in CanvasIds : PaintDraw(c)

SleepFrame == \E c \in CanvasIds : Sleep(c)

NextPaint ==
    \/ MakeCanvasPaint
    \/ CreateBitmap
    \/ Register
    \/ CheckFlag
    \/ BeginPaint
    \/ EndPaint
    \/ SleepFrame
    \/ CallAddPlotToCanvas
    \/ CallRemovePlotFromCanvas
    \/ LockGeneral
    \/ LockSpecific
    \/ RelockRecursive
    \/ RelockBlocks
    \/ RelockThrows
    \/ CallRemove
    \/ BodyRemove
    \/ BodyAdd

SpecPaint == InitReg /\ [][NextPaint]_vars

\* caller t is at canvasPointerMap.at(c)->removePlot or ->addPlot
Mutating(t, c) ==
    /\ c \in canvasPointerMap
    /\ \/ pc[t] = "body_remove" /\ GuardId(t) = c
       \/ pc[t] = "body_add" /\ call[t].canvas = c

\* the render thread of c is inside paint(): draw iterates over plots
Painting(c) == rpc[c] = "draw"

\* C12: a paint pass of a canvas never overlaps a change of the canvas's
\* membership list by addPlotToCanvas or removePlotFromCanvas, so that the
\* list a pass iterates over is the list before or after each change.
C12_PaintNeverOverlapsMutation ==
    \A c \in CanvasIds, t \in Callers : ~(Painting(c) /\ Mutating(t, c))

(***************************************************************************)
(* makeCanvas called from several threads (claim C13).  The constructor    *)
(* reads maxID into id and then increments maxID, with no lock and no      *)
(* atomic: the two statements of one call can have another call's between  *)
(* them, and the increment can write back the value its own call read plus *)
(* one.                                                                    *)
(***************************************************************************)
\* caller t has a canvas id back from makeCanvas
ReturnedBy(t) == ret[t].op = "makeCanvas" /\ ret[t].outcome = "ok"

\* the greatest id makeCanvas has returned so far, or NoCanvas
GreatestReturned ==
    LET ids == {ret[t].canvas : t \in {u \in Callers : ReturnedBy(u)}}
    IN  IF ids = {}
        THEN NoCanvas
        ELSE CHOOSE i \in ids : \A j \in ids : j <= i

\* Canvas::Canvas: id = maxID
CtorTakeId ==
    \E t \in Callers :
        /\ Idle(t)
        /\ nCalls[t] < MaxCalls
        /\ maxID < MaxCanvases
        /\ nCalls' = [nCalls EXCEPT ![t] = @ + 1]
        /\ pc' = [pc EXCEPT ![t] = "ctor_incr"]
        /\ call' = [call EXCEPT ![t] =
                       [NoCall EXCEPT !.op = "makeCanvas", !.canvas = maxID,
                                      !.old = GreatestReturned]]
        /\ UNCHANGED <<plotVars, series, canvas, maxID, mapVars, wndVars, rpc,
                       ret, flagged, paintsAfterFlag>>

\* Canvas::Canvas from maxID++ to its end, and the rest of makeCanvas
CtorFinish ==
    \E t \in Callers, list \in SeriesLists :
        /\ pc[t] = "ctor_incr"
        /\ \E v \in {maxID, call[t].canvas} : maxID' = v + 1
        /\ \E o \in CanvasCtor(list) :
              /\ ret' = [ret EXCEPT ![t] =
                            Ret("makeCanvas",
                                IF o.outcome = "ok"
                                THEN call[t].canvas
                                ELSE NoCanvas,
                                0, list, o.outcome, NewCanvas, o.cv)]
              /\ pc' = [pc EXCEPT ![t] =
                           IF o.outcome = "hang" THEN "hang" ELSE "idle"]
              /\ call' = [call EXCEPT ![t].outcome = o.outcome]
              /\ IF o.outcome = "ok"
                 THEN /\ canvas' = [canvas EXCEPT ![call[t].canvas] = o.cv]
                      /\ rpc' = [rpc EXCEPT ![call[t].canvas] = "initWindow"]
                 ELSE UNCHANGED <<canvas, rpc>>
        /\ UNCHANGED <<plotVars, series, mapVars, wndVars, auxVars>>

NextIds == CtorTakeId \/ CtorFinish \/ CreateBitmap \/ Register

SpecIds == InitData /\ [][NextIds]_vars

\* C13: two canvases made by makeCanvas, from one thread or from several,
\* have different ids, and a canvas made after another makeCanvas call has
\* returned has an id greater than the one that call returned.
C13_CanvasIdsDistinctAscending ==
    /\ \A t, u \in Callers :
          (t # u /\ ReturnedBy(t) /\ ReturnedBy(u))
              => ret[t].canvas # ret[u].canvas
    /\ \A t \in Callers :
          (ReturnedBy(t) /\ call[t].op = "makeCanvas")
              => ret[t].canvas > call[t].old

(***************************************************************************)
(* Paint passes over Series plots with data (claims C14, C15 and C19).     *)
(* One canvas is made from a list of Series plots, which may be empty;     *)
(* its render thread paints, and plots are added and removed between the   *)
(* statements of the thread.                                               *)
(***************************************************************************)
\* the canvases of the draw specification
NumDrawCanvases == 1
\* the greatest sizeData
MaxData == 2
\* the data values are 0..MaxValue
MaxValue == 1
\* the skips are 1..MaxSkip
MaxSkip == 1

DataSets ==
    UNION {[1..n -> 0..MaxValue] : n \in 1..MaxData}

\* makeSeries(skip, data, sizeData)
SeriesWithData ==
    {[FreshSeries EXCEPT !.skip = k, !.values = d] :
        k \in 1..MaxSkip, d \in DataSets}

InitDraw ==
    /\ plotType = [p \in Plots |-> SeriesType]
    /\ unset = NoCanvas
    /\ canvasOf = [p \in Plots |-> unset]
    /\ series \in {f \in [Plots -> SeriesWithData \cup {FreshSeries}] :
                      /\ \A p \in SeriesPlots : f[p] \in SeriesWithData
                      /\ \A p \in Plots \ SeriesPlots : f[p] = FreshSeries}
    /\ InitRest

MakeCanvasDraw ==
    /\ maxID < NumDrawCanvases
    /\ \E list \in SeriesLists : MakeCanvasBy(Main, list)

NextDraw ==
    \/ MakeCanvasDraw
    \/ AddSeries
    \/ RemoveSeries
    \/ CreateBitmap
    \/ Register
    \/ CheckFlag
    \/ BeginPaint
    \/ EndPaint
    \/ SleepFrame

SpecDraw == InitDraw /\ [][NextDraw]_vars

\* the least and the greatest of component i of the limits of the plots
Reduced(plots, ser) ==
    LET lim == {getAxisLimits(ser[p]) : p \in Range(plots)}
    IN  <<MinOf({l[1] : l \in lim}), MaxOf({l[2] : l \in lim}),
          MinOf({l[3] : l \in lim}), MaxOf({l[4] : l \in lim})>>

\* C14: after a paint pass over one or more plots, the axis limits given to
\* the axes and to the plots are, for each axis, the least of the plots'
\* minima and the greatest of their maxima, whatever the order of the list.
C14_LimitsAreReductionOverPlots ==
    \A c \in CanvasIds :
        (canvas[c].order # <<>> /\ canvas[c].drawn # <<>>)
            => /\ canvas[c].limits = "written"
               /\ canvas[c].axisLimits = Reduced(canvas[c].drawn, series)

\* x is drawn before y in the pass
DrawnBefore(x, y, order) ==
    \E i, j \in 1..Len(order) : i < j /\ order[i] = x /\ order[j] = y

\* C15: in every paint pass the draw-space corners are computed before the
\* grids, the plots and the axes are drawn with them, so that none of the
\* three is drawn with corners of an earlier pass or with corners never
\* assigned; and the grids and the axes are drawn after the plots.
C15_DrawSpaceAssignedBeforeUse ==
    \A c \in CanvasIds :
        canvas[c].order # <<>>
            => /\ canvas[c].gridSpace = "current"
               /\ canvas[c].plotSpace = "current"
               /\ canvas[c].axisSpace = "current"
               /\ DrawnBefore("plots", "grid", canvas[c].order)
               /\ DrawnBefore("plots", "axis", canvas[c].order)

\* C19: whenever the render thread is in paint and draw, setAxisType has
\* allocated the canvas's axis state exactly once.
C19_AxisStateAllocatedOnce ==
    \A c \in CanvasIds : Painting(c) => canvas[c].axisAllocs = 1


\* C16: an addPlot on a canvas whose list is not empty, when no member has the
\* new plot's type, ends with the "Binary insert failed" error, leaves the list
\* as it was, and reads no position outside the list.
C16_NoMatchingTypeRaisesBinaryInsert ==
    (ret[Main].op = "addPlot" /\ ~ret[Main].wasEmpty /\ ~ret[Main].matched)
        => /\ ret[Main].outcome = "binaryInsert"
           /\ ~ret[Main].changed
           /\ ~ret[Main].pastEnd

(***************************************************************************)
(* The order in which the two canvas-scoped mutexes are taken.  Here       *)
(* createBitmap takes its two guards in two steps, so that a thread can be *)
(* seen holding the first while it waits for the second.                   *)
(***************************************************************************)
\* createBitmap(): lock_guard guard(hwndToBitmapMutex)
CreateBitmapLock(c) ==
    /\ rpc[c] = "initWindow"
    /\ Acquire(createBitmapLocks[1], RenderThread(c))
    /\ rpc' = [rpc EXCEPT ![c] = "bitmap_locked"]
    /\ UNCHANGED <<plotVars, series, canvas, maxID, mapVars, hwndToBitmap,
                   terminateCanvas, pc, call, ret, auxVars>>

\* createBitmap(): lock_guard guard2(terminateCanvasMutex), the back buffer
\* and the flag; both guards end with the function
CreateBitmapBody(c) ==
    /\ rpc[c] = "bitmap_locked"
    /\ Owner(createBitmapLocks[2]) = NoThread
    /\ hwndToBitmap' = hwndToBitmap \cup {c}
    /\ terminateCanvas' = [terminateCanvas EXCEPT ![c] = "false"]
    /\ hwndToBitmapMutex' = NoThread
    /\ terminateCanvasMutex' = NoThread
    /\ rpc' = [rpc EXCEPT ![c] = "register"]
    /\ UNCHANGED <<plotVars, series, canvas, maxID, mapVars, pc, call, ret,
                   auxVars>>

\* the steps of createBitmap on the render thread of canvas c
CreateBitmapStep(c) == CreateBitmapLock(c) \/ CreateBitmapBody(c)

NextLocks ==
    \/ MakeCanvasLoop
    \/ \E c \in CanvasIds : CreateBitmapStep(c)
    \/ Register
    \/ \E c \in CanvasIds : RenderStep(c)
    \/ \E t \in Callers : CallDeleteCanvas(t)
    \/ \E t \in Callers : DeleteCanvasStep(t)

SpecLocks == InitData /\ [][NextLocks]_vars

\* the threads that take the canvas-scoped mutexes
LockThreads == Callers \cup {RenderThread(c) : c \in CanvasIds}

\* the canvas-scoped mutexes thread th holds
Holds(th) ==
    {m \in {"hwndToBitmapMutex", "terminateCanvasMutex"} : Owner(m) = th}

\* the mutex the render thread of canvas c is about to take, or "none"
RenderRequests(c) ==
    CASE rpc[c] = "initWindow" -> createBitmapLocks[1]
      [] rpc[c] = "bitmap_locked" -> createBitmapLocks[2]
      [] rpc[c] = "check" -> "terminateCanvasMutex"
      [] rpc[c] = "paint" -> "hwndToBitmapMutex"
      [] rpc[c] = "kill" /\ ~canvas[c].killed -> killLocks[1]
      [] rpc[c] = "kill_locked" -> killLocks[2]
      [] OTHER -> "none"

\* the mutex thread th is about to take, or "none"
Requests(th) ==
    IF th \in Callers
    THEN IF pc[th] = "delete_lock" THEN "terminateCanvasMutex" ELSE "none"
    ELSE RenderRequests(-th - 1)

\* C17: no thread asks for hwndToBitmapMutex while it holds
\* terminateCanvasMutex, so a thread with both took hwndToBitmapMutex first,
\* and no two threads each wait for the mutex the other holds.
C17_MutexesTakenInOneOrder ==
    /\ \A th \in LockThreads :
          "terminateCanvasMutex" \in Holds(th)
              => Requests(th) # "hwndToBitmapMutex"
    /\ \A a, b \in LockThreads :
          ~(a # b /\ Requests(a) \in Holds(b) /\ Requests(b) \in Holds(a))

\* the render thread of a canvas is inside kill with its first guard and
\* waits for the second, which a caller inside deleteCanvas holds
C17_Witness ==
    \E c \in CanvasIds, t \in Callers :
        /\ rpc[c] = "kill_locked"
        /\ Holds(RenderThread(c)) = {"hwndToBitmapMutex"}
        /\ Requests(RenderThread(c)) = "terminateCanvasMutex"
        /\ Holds(t) = {"terminateCanvasMutex"}

\* C18: a deleteCanvas on an id that makeCanvas returned never fails on a
\* missing entry, whatever the render thread's initWindow has done so far, and
\* it reads canvasHWNDMap only while it holds canvasMapMutex.
C18_ReturnedCanvasIsRegistered ==
    \A t \in Callers :
        /\ (call[t].op = "deleteCanvas" /\ Idle(t))
              => call[t].outcome # "out_of_range"
        /\ pc[t] = "delete_body" => canvasMapMutex.owner = t

\* C20: when no registry call is under way, a plot's owning-canvas
\* back-reference names a live canvas c exactly when the plot is in the
\* membership list of c.
C20_BackReferenceMatchesMembership ==
    (\A t \in Callers : Idle(t))
        => \A p \in Plots, c \in CanvasIds :
              canvas[c].state = "live"
                  => (getPlotCanvas(p) = c <=> InCanvas(p, c))
=============================================================================
